---- MODULE Spec2Model ----
(***************************************************************************)
(* Dictionary loading of the hyphenation crate (src/load.rs): the Load     *)
(* trait (from_path, from_reader, any_from_reader, from_embedded), the     *)
(* embedded-resource lookup and the lifting of I/O and codec errors into   *)
(* the crate's Error.                                                      *)
(*                                                                         *)
(* A byte source is kept in run-length form: the record's header bytes     *)
(* one by one, followed by `run.n` payload bytes that all equal            *)
(* `run.fill`.  This is an ordinary byte string, written compactly so that *)
(* records around the decode ceiling of 5,000,000 bytes can be handled.    *)
(***************************************************************************)
EXTENDS Integers, Sequences, FiniteSets, TLC

VARIABLES resources, fs, call, outcome

vars == <<resources, fs, call, outcome>>

-----------------------------------------------------------------------------
(* Bounds of the model *)

\* length of the payload of an ordinary (small) dictionary
SmallLen == 2
\* payload bytes take the values 1..NumFills
NumFills == 1

-----------------------------------------------------------------------------
(* Languages and dictionary kinds *)

Languages == <<"EnglishUS", "German1996", "French">>

LanguageSet == {Languages[i] : i \in 1..Len(Languages)}

\* Language::code()
code(lang) ==
    CASE lang = "EnglishUS" -> "en-us"
      [] lang = "German1996" -> "de-1996"
      [] lang = "French" -> "fr"

\* the variant index the codec writes for a language
VariantIndex(lang) == (CHOOSE i \in 1..Len(Languages) : Languages[i] = lang) - 1

\* the $suffix argument of the two impl_load! invocations
Suffixes == {"standard", "extended"}

-----------------------------------------------------------------------------
(* The binary codec: fixed-width little-endian integers, an enum as a      *)
(* 4-byte variant index, a byte payload as an 8-byte length and the bytes  *)

TagWidth == 4
LenWidth == 8
HeaderLen == TagWidth + LenWidth

DecodeLimit == 5000000
\* bin::deserialize applies no limit
Unlimited == -1

NoFault == -1

RECURSIVE ToLE(_, _)
ToLE(n, w) == IF w = 0 THEN <<>> ELSE <<n % 256>> \o ToLE(n \div 256, w - 1)

RECURSIVE FromLE(_)
FromLE(bytes) ==
    IF bytes = <<>> THEN 0
    ELSE IF \A i \in 2..Len(bytes) : bytes[i] = 0 THEN bytes[1]
    ELSE bytes[1] + 256 * FromLE(Tail(bytes))

\* bincode::serialize of a dictionary
Encode(dict) ==
    [hdr |-> ToLE(VariantIndex(dict.language), TagWidth) \o ToLE(dict.patterns.n, LenWidth),
     run |-> dict.patterns,
     fault |-> NoFault]

\* number of bytes the source holds
Avail(s) == Len(s.hdr) + s.run.n

BinErr(kind, io) == [tag |-> "Err", error |-> [kind |-> kind, io |-> io]]

\* the outcome of reading bytes [pos, pos + n) of the source: "ok", or the
\* io::ErrorKind of the failed read
ReadExact(s, pos, n) ==
    IF s.fault # NoFault /\ pos + n > s.fault THEN "Other"
    ELSE IF pos + n > Avail(s) THEN "UnexpectedEof"
    ELSE "ok"

\* SizeLimit::add: may n more bytes be read under the remaining limit
LimitAllows(limit, n) == limit = Unlimited \/ n <= limit

LimitAfter(limit, n) == IF limit = Unlimited THEN Unlimited ELSE limit - n

\* deserialization of a dictionary record from a source under a size limit
Deserialize(s, limit) ==
    IF ~LimitAllows(limit, TagWidth) THEN BinErr("SizeLimit", "none")
    ELSE IF ReadExact(s, 0, TagWidth) # "ok" THEN BinErr("Io", ReadExact(s, 0, TagWidth))
    ELSE LET idx == FromLE(SubSeq(s.hdr, 1, TagWidth))
             l1 == LimitAfter(limit, TagWidth)
         IN
         IF idx >= Len(Languages) THEN BinErr("Custom", "none")
         ELSE IF ~LimitAllows(l1, LenWidth) THEN BinErr("SizeLimit", "none")
         ELSE IF ReadExact(s, TagWidth, LenWidth) # "ok"
              THEN BinErr("Io", ReadExact(s, TagWidth, LenWidth))
         ELSE LET n == FromLE(SubSeq(s.hdr, TagWidth + 1, HeaderLen))
                  l2 == LimitAfter(l1, LenWidth)
              IN
              IF ~LimitAllows(l2, n) THEN BinErr("SizeLimit", "none")
              ELSE IF ReadExact(s, HeaderLen, n) # "ok"
                   THEN BinErr("Io", ReadExact(s, HeaderLen, n))
              ELSE [tag |-> "Ok",
                    dict |-> [language |-> Languages[idx + 1],
                              patterns |-> [n |-> n, fill |-> s.run.fill]]]

-----------------------------------------------------------------------------
(* Error and its conversions *)

Ok(dict) == [tag |-> "Ok", dict |-> dict]
Err(e) == [tag |-> "Err", error |-> e]

\* impl From<io::Error> for Error
FromIoError(err) == [kind |-> "IO", cause |-> err]

\* impl From<bin::Error> for Error
FromBinError(err) == [kind |-> "Deserialization", cause |-> err]

LanguageMismatch(expected, found) ==
    [kind |-> "LanguageMismatch", expected |-> expected, found |-> found]

Resource == [kind |-> "Resource"]

-----------------------------------------------------------------------------
(* The loaders.  Each returns the Result handed to the caller together     *)
(* with the steps the call went through, in order.                         *)

Returned(result, steps) == [result |-> result, steps |-> steps]

\* the same, with the resource name an embedded load asked the table for
Looked(result, steps, name) == [result |-> result, steps |-> steps, name |-> name]

\* from_reader without the language comparison
from_reader_unchecked(lang, reader) ==
    LET dict == Deserialize(reader, DecodeLimit) IN
    IF dict.tag = "Err" THEN Returned(Err(FromBinError(dict.error)), <<"deserialize">>)
    ELSE Returned(Ok(dict.dict), <<"deserialize", "compare">>)

\* from_reader with the two fields of LanguageMismatch exchanged
from_reader_swapped(lang, reader) ==
    LET dict == Deserialize(reader, DecodeLimit) IN
    IF dict.tag = "Err" THEN Returned(Err(FromBinError(dict.error)), <<"deserialize">>)
    ELSE LET found == dict.dict.language
             expected == lang
         IN
         IF found # expected
         THEN Returned(Err(LanguageMismatch(found, expected)), <<"deserialize", "compare">>)
         ELSE Returned(Ok(dict.dict), <<"deserialize", "compare">>)

\* from_reader with the comparison inverted
from_reader_inverted(lang, reader) ==
    LET dict == Deserialize(reader, DecodeLimit) IN
    IF dict.tag = "Err" THEN Returned(Err(FromBinError(dict.error)), <<"deserialize">>)
    ELSE LET found == dict.dict.language
             expected == lang
         IN
         IF found = expected
         THEN Returned(Err(LanguageMismatch(expected, found)), <<"deserialize", "compare">>)
         ELSE Returned(Ok(dict.dict), <<"deserialize", "compare">>)

\* from_reader decoding without the size limit, as bin::deserialize does
from_reader_unlimited(lang, reader) ==
    LET dict == Deserialize(reader, Unlimited) IN
    IF dict.tag = "Err" THEN Returned(Err(FromBinError(dict.error)), <<"deserialize">>)
    ELSE LET found == dict.dict.language
             expected == lang
         IN
         IF found # expected
         THEN Returned(Err(LanguageMismatch(expected, found)), <<"deserialize", "compare">>)
         ELSE Returned(Ok(dict.dict), <<"deserialize", "compare">>)

\* impl_load!: Load::from_reader
from_reader(lang, reader) ==
    LET dict == Deserialize(reader, DecodeLimit) IN
    IF dict.tag = "Err" THEN Returned(Err(FromBinError(dict.error)), <<"deserialize">>)
    ELSE LET found == dict.dict.language
             expected == lang
         IN
         IF found # expected
         THEN Returned(Err(LanguageMismatch(expected, found)), <<"deserialize", "compare">>)
         ELSE Returned(Ok(dict.dict), <<"deserialize", "compare">>)

\* any_from_reader checking the dictionary against a default language
any_from_reader_checked(reader) ==
    LET dict == Deserialize(reader, DecodeLimit) IN
    IF dict.tag = "Err" THEN Returned(Err(FromBinError(dict.error)), <<"deserialize">>)
    ELSE IF dict.dict.language # Languages[1]
         THEN Returned(Err(LanguageMismatch(Languages[1], dict.dict.language)),
                       <<"deserialize", "compare">>)
         ELSE Returned(Ok(dict.dict), <<"deserialize", "compare">>)

\* impl_load!: Load::any_from_reader
any_from_reader(reader) ==
    LET dict == Deserialize(reader, DecodeLimit) IN
    IF dict.tag = "Err" THEN Returned(Err(FromBinError(dict.error)), <<"deserialize">>)
    ELSE Returned(Ok(dict.dict), <<"deserialize">>)

\* the resource name without the dictionary kind
ResourceName_nosuffix(c, suffix) == c \o ".bincode"

\* format!("{}.{}.bincode", code, suffix)
ResourceName(c, suffix) == c \o "." \o suffix \o ".bincode"

\* retrieve_resource: the bytes of the resource of that name, or Error::Resource
retrieve_resource(c, suffix, table) ==
    LET name == ResourceName(c, suffix) IN
    IF name \in DOMAIN table THEN [tag |-> "Ok", bytes |-> table[name], name |-> name]
    ELSE [tag |-> "Err", error |-> Resource, name |-> name]

\* impl_load!: Load::from_embedded
from_embedded(lang, suffix, table) ==
    LET dict_bytes == retrieve_resource(code(lang), suffix, table) IN
    IF dict_bytes.tag = "Err" THEN Looked(Err(dict_bytes.error), <<"lookup">>, dict_bytes.name)
    ELSE LET dict == Deserialize(dict_bytes.bytes, Unlimited) IN
         IF dict.tag = "Err"
         THEN Looked(Err(FromBinError(dict.error)), <<"lookup", "deserialize">>, dict_bytes.name)
         ELSE Looked(Ok(dict.dict), <<"lookup", "deserialize">>, dict_bytes.name)

\* File::open: the file's byte source, or the io::Error of the failed open
FileOpen(path, files) ==
    IF path \notin DOMAIN files THEN [tag |-> "Err", error |-> "NotFound"]
    ELSE IF ~files[path].readable THEN [tag |-> "Err", error |-> "PermissionDenied"]
    ELSE [tag |-> "Ok", file |-> files[path].data]

\* io::BufReader::new: the same bytes and the same failures as the file
BufReader(file) == file

\* from_path delegating to the loader that does not check the language
from_path_unchecked(lang, path, files) ==
    LET file == FileOpen(path, files) IN
    IF file.tag = "Err" THEN Returned(Err(FromIoError(file.error)), <<"open">>)
    ELSE LET r == any_from_reader(BufReader(file.file)) IN
         Returned(r.result, <<"open">> \o r.steps)

\* Load::from_path
from_path(lang, path, files) ==
    LET file == FileOpen(path, files) IN
    IF file.tag = "Err" THEN Returned(Err(FromIoError(file.error)), <<"open">>)
    ELSE LET r == from_reader(lang, BufReader(file.file)) IN
         Returned(r.result, <<"open">> \o r.steps)

-----------------------------------------------------------------------------
(* The inputs: dictionaries, their encodings, and damaged encodings *)

\* the longest payload whose record fits the decode limit
MaxPayload == DecodeLimit - HeaderLen

PayloadLens == {SmallLen, MaxPayload, MaxPayload + 1}

Dicts == [language : LanguageSet, patterns : [n : PayloadLens, fill : 1..NumFills]]

WellFormed == {Encode(d) : d \in Dicts}

\* the first k bytes of a source
Truncate(s, k) ==
    IF k <= Len(s.hdr)
    THEN [hdr |-> SubSeq(s.hdr, 1, k), run |-> [n |-> 0, fill |-> s.run.fill], fault |-> s.fault]
    ELSE [hdr |-> s.hdr, run |-> [n |-> k - Len(s.hdr), fill |-> s.run.fill], fault |-> s.fault]

\* every cut inside the header, the cut after it, and the cut one byte short
TruncOffsets(s) == {k \in (0..HeaderLen) \cup {Avail(s) - 1} : k < Avail(s)}

Truncated == UNION {{Truncate(s, k) : k \in TruncOffsets(s)} : s \in WellFormed}

\* a record whose language tag is no variant of Language
CorruptTag(s) == [s EXCEPT !.hdr[1] = Len(Languages)]

\* a record whose length prefix has one of its high bytes set
CorruptLen(s) == [s EXCEPT !.hdr[TagWidth + LenWidth \div 2] = 1]

Corrupted == {CorruptTag(s) : s \in WellFormed} \cup {CorruptLen(s) : s \in WellFormed}

\* a source that delivers its first f bytes and fails every read beyond them
WithFault(s, f) == [s EXCEPT !.fault = f]

FaultOffsets(s) == {0, HeaderLen, Avail(s)}

Faulty == UNION {{WithFault(s, f) : f \in FaultOffsets(s)} : s \in WellFormed}

\* what a caller may hand to from_reader and any_from_reader
Readers == WellFormed \cup Truncated \cup Corrupted \cup Faulty

SmallDict(lang) == [language |-> lang, patterns |-> [n |-> SmallLen, fill |-> 1]]
LargeDict(lang) == [language |-> lang, patterns |-> [n |-> MaxPayload + 1, fill |-> 1]]

\* the contents a file may have
FileData ==
    {Encode(SmallDict("EnglishUS")), Encode(SmallDict("German1996")),
     Encode(LargeDict("EnglishUS")),
     Truncate(Encode(SmallDict("EnglishUS")), HeaderLen),
     CorruptTag(Encode(SmallDict("French"))),
     WithFault(Encode(SmallDict("EnglishUS")), HeaderLen)}

Paths == {"/dict/hyph.bincode", "/nonexistent/path"}

\* the file systems: no file at all, or one file, readable or not
FileSystems ==
    {<<>>} \cup
    {[p \in {"/dict/hyph.bincode"} |-> [readable |-> r, data |-> d]] :
        <<r, d>> \in ({TRUE} \X FileData) \cup {<<FALSE, Encode(SmallDict("EnglishUS"))>>}}

\* the contents a compiled-in resource may have (in memory: reads never fail)
ResourceData ==
    {Encode(SmallDict("EnglishUS")), Encode(SmallDict("German1996")),
     Encode(LargeDict("EnglishUS")), Encode(LargeDict("French")),
     Truncate(Encode(SmallDict("EnglishUS")), HeaderLen),
     CorruptTag(Encode(SmallDict("EnglishUS")))}

\* the compiled-in resource tables: empty, or holding the standard American
\* English and the extended German dictionaries
ResourceTables ==
    {<<>>} \cup
    {[n \in {"en-us.standard.bincode", "de-1996.extended.bincode"} |->
        IF n = "en-us.standard.bincode" THEN d ELSE Encode(SmallDict("German1996"))] :
        d \in ResourceData}

-----------------------------------------------------------------------------
(* The state machine: a single-threaded caller that issues load calls one   *)
(* after another.  A call runs to completion and hands its Result to the   *)
(* caller by value; nothing of it is retained once the caller has taken it *)

NoSource == [hdr |-> <<>>, run |-> [n |-> 0, fill |-> 0], fault |-> NoFault]

Call(op, suffix, lang, reader, path) ==
    [op |-> op, suffix |-> suffix, lang |-> lang, reader |-> reader, path |-> path]

NoCall == Call("none", "", "", NoSource, "")
NoOutcome == Returned([tag |-> "None"], <<>>)

Init ==
    /\ resources \in ResourceTables
    /\ fs \in FileSystems
    /\ call = NoCall
    /\ outcome = NoOutcome

\* <$dict as Load>::from_reader(lang, &mut reader)
FromReader ==
    /\ call = NoCall
    /\ \E suffix \in Suffixes, lang \in LanguageSet, reader \in Readers :
        /\ call' = Call("from_reader", suffix, lang, reader, "")
        /\ outcome' = from_reader(lang, reader)
    /\ UNCHANGED <<resources, fs>>

\* <$dict as Load>::any_from_reader(&mut reader)
AnyFromReader ==
    /\ call = NoCall
    /\ \E suffix \in Suffixes, reader \in Readers :
        /\ call' = Call("any_from_reader", suffix, "", reader, "")
        /\ outcome' = any_from_reader(reader)
    /\ UNCHANGED <<resources, fs>>

\* <$dict as Load>::from_path(lang, path)
FromPath ==
    /\ call = NoCall
    /\ \E suffix \in Suffixes, lang \in LanguageSet, path \in Paths :
        /\ call' = Call("from_path", suffix, lang, NoSource, path)
        /\ outcome' = from_path(lang, path, fs)
    /\ UNCHANGED <<resources, fs>>

\* <$dict as Load>::from_embedded(lang)
FromEmbedded ==
    /\ call = NoCall
    /\ \E suffix \in Suffixes, lang \in LanguageSet :
        /\ call' = Call("from_embedded", suffix, lang, NoSource, "")
        /\ outcome' = from_embedded(lang, suffix, resources)
    /\ UNCHANGED <<resources, fs>>

\* the caller takes the Result; the call leaves nothing behind
Take ==
    /\ call # NoCall
    /\ call' = NoCall
    /\ outcome' = NoOutcome
    /\ UNCHANGED <<resources, fs>>

Next ==
    \/ FromReader
    \/ AnyFromReader
    \/ FromPath
    \/ FromEmbedded
    \/ Take

Spec == Init /\ [][Next]_vars

-----------------------------------------------------------------------------
(* Vocabulary of the properties *)

IsOk == outcome.result.tag = "Ok"
IsErr(kind) == outcome.result.tag = "Err" /\ outcome.result.error.kind = kind

\* the record of a dictionary is no longer than the decode limit
Fits(d) == HeaderLen + d.patterns.n <= DecodeLimit

\* the resource name of a language and a dictionary kind, spelled out
ExpectedName(lang, suffix) ==
    CASE lang = "EnglishUS" /\ suffix = "standard" -> "en-us.standard.bincode"
      [] lang = "EnglishUS" /\ suffix = "extended" -> "en-us.extended.bincode"
      [] lang = "German1996" /\ suffix = "standard" -> "de-1996.standard.bincode"
      [] lang = "German1996" /\ suffix = "extended" -> "de-1996.extended.bincode"
      [] lang = "French" /\ suffix = "standard" -> "fr.standard.bincode"
      [] lang = "French" /\ suffix = "extended" -> "fr.extended.bincode"

\* the file behind the path of a from_path call can be opened
Opens == call.path \in DOMAIN fs /\ fs[call.path].readable

-----------------------------------------------------------------------------
(* C1 *)

\* C1: whenever from_reader(L, stream) or from_path(L, path) returns
\* Ok(dict), dict.language is the language L requested in that call.
C1_ValidatedLanguage ==
    (call.op \in {"from_reader", "from_path"} /\ IsOk)
        => outcome.result.dict.language = call.lang

\* a from_path call that returned a dictionary
C1_Witness == call.op = "from_path" /\ IsOk /\ call.lang = "German1996"

-----------------------------------------------------------------------------
(* C2 *)

\* C2 as stated: for any well-formed record tagged L1 and any requested
\* L2 # L1, from_reader(L2, bytes) returns
\* Err(LanguageMismatch { expected: L2, found: L1 }).
C2_MismatchAnyRecord ==
    \A d \in Dicts :
        (call.op = "from_reader" /\ call.reader = Encode(d) /\ d.language # call.lang)
            => /\ IsErr("LanguageMismatch")
               /\ outcome.result.error.expected = call.lang
               /\ outcome.result.error.found = d.language

\* C2, amended: for any well-formed record tagged L1 that is within the
\* decode size ceiling and any requested L2 # L1, from_reader(L2, bytes)
\* returns Err(LanguageMismatch { expected: L2, found: L1 }) and never a
\* dictionary.
C2_MismatchWithinCeiling ==
    \A d \in Dicts :
        (call.op = "from_reader" /\ call.reader = Encode(d) /\ Fits(d)
            /\ d.language # call.lang)
            => /\ IsErr("LanguageMismatch")
               /\ outcome.result.error.expected = call.lang
               /\ outcome.result.error.found = d.language

\* a French dictionary was requested from the largest fitting German record
C2_Witness ==
    /\ call.op = "from_reader"
    /\ call.lang = "French"
    /\ call.reader = Encode([language |-> "German1996",
                             patterns |-> [n |-> MaxPayload, fill |-> 1]])
    /\ IsErr("LanguageMismatch")

-----------------------------------------------------------------------------
(* C3 *)

\* C3: for any well-formed record for language L within the decode size
\* ceiling, from_reader(L, bytes) returns Ok with the dictionary that was
\* encoded, whose language is L.
C3_RoundTrip ==
    \A d \in Dicts :
        (call.op = "from_reader" /\ call.reader = Encode(d) /\ Fits(d)
            /\ d.language = call.lang)
            => /\ IsOk
               /\ outcome.result.dict = d
               /\ outcome.result.dict.language = call.lang

\* the largest fitting French record was loaded as French
C3_Witness ==
    /\ call.op = "from_reader"
    /\ call.lang = "French"
    /\ call.reader = Encode([language |-> "French",
                             patterns |-> [n |-> MaxPayload, fill |-> 1]])
    /\ IsOk

-----------------------------------------------------------------------------
(* C5 *)

\* C5: any_from_reader never returns LanguageMismatch, and for every
\* well-formed record within the size ceiling, whatever its language, it
\* returns Ok with the dictionary that was encoded.
C5_PassThrough ==
    call.op = "any_from_reader"
        => /\ ~IsErr("LanguageMismatch")
           /\ \A d \in Dicts :
                (call.reader = Encode(d) /\ Fits(d)) => (IsOk /\ outcome.result.dict = d)

\* a German record went through any_from_reader
C5_Witness ==
    /\ call.op = "any_from_reader"
    /\ call.reader = Encode(SmallDict("German1996"))
    /\ IsOk

-----------------------------------------------------------------------------
(* C6 *)

\* the records longer than the decode limit
Oversized == {Encode(d) : d \in {x \in Dicts : ~Fits(x)}}

\* C6: a truncated record, a corrupted record or a record over the decode
\* size ceiling makes from_reader (for every requested language) and
\* any_from_reader return Err(Deserialization), decided without any
\* language comparison.
C6_RejectedIsDeserialization ==
    (call.op \in {"from_reader", "any_from_reader"}
        /\ call.reader \in Truncated \cup Corrupted \cup Oversized)
        => /\ IsErr("Deserialization")
           /\ \A i \in 1..Len(outcome.steps) : outcome.steps[i] # "compare"

\* from_reader was given a record one byte over the ceiling, in its own language
C6_Witness ==
    /\ call.op = "from_reader"
    /\ call.lang = "EnglishUS"
    /\ call.reader = Encode(LargeDict("EnglishUS"))
    /\ IsErr("Deserialization")

-----------------------------------------------------------------------------
(* C4 *)

\* C4: whenever from_embedded(L) returns Ok(dict), dict.language is L; a
\* resource found under L's name that holds a record of another language
\* L1 gives LanguageMismatch { expected: L, found: L1 }.
C4_EmbeddedValidated ==
    call.op = "from_embedded"
        => /\ IsOk => outcome.result.dict.language = call.lang
           /\ \A d \in Dicts :
                (/\ ExpectedName(call.lang, call.suffix) \in DOMAIN resources
                 /\ resources[ExpectedName(call.lang, call.suffix)] = Encode(d)
                 /\ d.language # call.lang)
                    => /\ IsErr("LanguageMismatch")
                       /\ outcome.result.error.expected = call.lang
                       /\ outcome.result.error.found = d.language

-----------------------------------------------------------------------------
(* C7 *)

\* the byte source a call reads, once it has one
Source ==
    IF call.op = "from_path" THEN (IF Opens THEN fs[call.path].data ELSE NoSource)
    ELSE call.reader

\* the source holds a record within the ceiling and fails before its end
FailsWhileRead(s) == s.fault # NoFault /\ s.fault < Avail(s) /\ Avail(s) <= DecodeLimit

\* C7: a failure of the byte source while from_reader, any_from_reader or
\* from_path reads it is reported as the IO kind, and the cause inside a
\* Deserialization error is never an I/O failure of the source.
C7_ReadFailureIsIO ==
    (call.op \in {"from_reader", "any_from_reader", "from_path"} /\ FailsWhileRead(Source))
        => /\ IsErr("IO")
           /\ ~(IsErr("Deserialization") /\ outcome.result.error.cause.kind = "Io")

-----------------------------------------------------------------------------
(* C8 *)

\* C8: from_embedded(L) for kind K asks the table for exactly
\* "{L.code()}.{K}.bincode"; when the table has no such name it returns
\* Err(Resource) and decodes nothing, and when it has, the error is never
\* Resource.
C8_EmbeddedLookup ==
    call.op = "from_embedded"
        => /\ outcome.name = ExpectedName(call.lang, call.suffix)
           /\ ExpectedName(call.lang, call.suffix) \notin DOMAIN resources
                => (IsErr("Resource") /\ outcome.steps = <<"lookup">>)
           /\ ExpectedName(call.lang, call.suffix) \in DOMAIN resources
                => (~IsErr("Resource") /\ outcome.steps = <<"lookup", "deserialize">>)

\* the table holds the standard English dictionary and the extended one was asked for
C8_Witness ==
    /\ call.op = "from_embedded"
    /\ call.lang = "EnglishUS"
    /\ call.suffix = "extended"
    /\ "en-us.standard.bincode" \in DOMAIN resources
    /\ IsErr("Resource")

-----------------------------------------------------------------------------
(* C9 *)

\* C9: when the resource for (L, kind) exists, from_embedded(L) returns what
\* from_reader(L, the resource's bytes) returns, whatever the resource holds.
C9_EmbeddedAsReader ==
    (call.op = "from_embedded" /\ ExpectedName(call.lang, call.suffix) \in DOMAIN resources)
        => outcome.result
             = from_reader(call.lang, resources[ExpectedName(call.lang, call.suffix)]).result

-----------------------------------------------------------------------------
(* C10 *)

\* C10: from_path(L, path) fails with IO, decoding and comparing nothing,
\* whenever the file cannot be opened; when it opens, the result is that of
\* from_reader(L, the file's contents); so an IO error comes from the open
\* alone, a Deserialization error from a decode that followed the open, and
\* LanguageMismatch from a comparison that followed both.
C10_PathPrecedence ==
    call.op = "from_path"
        => /\ ~Opens => (IsErr("IO") /\ outcome.steps = <<"open">>)
           /\ Opens => /\ outcome.result = from_reader(call.lang, fs[call.path].data).result
                       /\ ~IsErr("IO")
           /\ IsErr("Deserialization") => outcome.steps = <<"open", "deserialize">>
           /\ (IsErr("LanguageMismatch") \/ IsOk)
                => outcome.steps = <<"open", "deserialize", "compare">>
           /\ \A d \in Dicts :
                (Opens /\ fs[call.path].data = Encode(d) /\ Fits(d) /\ d.language # call.lang)
                    => IsErr("LanguageMismatch")

\* a path with no file behind it, next to one that has
C10_Witness ==
    /\ call.op = "from_path"
    /\ call.path = "/nonexistent/path"
    /\ "/dict/hyph.bincode" \in DOMAIN fs
    /\ IsErr("IO")

====
